---- MODULE Spec2Model ----
(***************************************************************************)
(* Evaluation utilities of the cardiac-shape VAE (model_evaluation.py):    *)
(* the VAE objective (vae_loss_function), the latent aggregation pass      *)
(* (generate_latent) and the loss ranking pass (calculate_losses).         *)
(*                                                                         *)
(* Two specifications share the module:                                    *)
(*   SpecLoss  one call of vae_loss_function on bounded tensors;           *)
(*   Spec      one evaluation pass (generate_latent or calculate_losses)   *)
(*             over a bounded loader, after the caller's training steps.   *)
(*                                                                         *)
(* Tensors are one-dimensional sequences (the flattened elements); real    *)
(* numbers are fixed-point integers in units of 1/Scale.                   *)
(***************************************************************************)
EXTENDS Integers, Sequences, FiniteSets, TLC

VARIABLES
    \* ---- vae_loss_function ----
    recon_x,                \* argument: reconstructed batch
    x,                      \* argument: original batch
    mu,                     \* argument: latent means
    logvar,                 \* argument: latent log-variances
    loss_out,               \* outcome of the call
    \* ---- evaluation passes ----
    pc,                     \* position of the (single) caller thread
    model,                  \* the VAE: [training, weights]
    dataloader,             \* generate_latent's loader: a sequence of batches
    test_loader,            \* calculate_losses' loader: a sequence of batches
    loss_function,          \* value loss_function returns on the i-th batch
    it,                     \* number of batches consumed by the for loop
    mus,                    \* generate_latent local / result
    logvars,                \* generate_latent local / result
    reconstruction_losses,  \* calculate_losses local
    originals,              \* calculate_losses local / result
    reconstructions,        \* calculate_losses local / result
    sorted_indices,         \* calculate_losses local
    best_5_indices,         \* calculate_losses result
    worst_5_indices         \* calculate_losses result

loss_vars == <<recon_x, x, mu, logvar, loss_out>>
pass_vars == <<pc, model, dataloader, test_loader, loss_function, it, mus,
               logvars, reconstruction_losses, originals, reconstructions,
               sorted_indices, best_5_indices, worst_5_indices>>
vars == <<loss_vars, pass_vars>>

(***************************************************************************)
(* Bounds of the model.                                                    *)
(***************************************************************************)
MaxDim == 3             \* elements of recon_x and of x
MaxLatent == 2          \* elements of mu and of logvar
MaxBatches == 5         \* batches of an exhaustively enumerated loader
MaxBatchSize == 2       \* samples per batch
MaxTrain == 1           \* training steps the caller takes before the pass

PixelVals == {0, 1}
MuVals == {-1, 0, 1}
LogvarVals == {-1, 0, 1}
LossVals == {0, 1, 2}

(***************************************************************************)
(* Generic helpers.                                                        *)
(***************************************************************************)
Min(a, b) == IF a <= b THEN a ELSE b
Max(a, b) == IF a >= b THEN a ELSE b
Range(s) == {s[i] : i \in DOMAIN s}
SeqsOf(S, lo, hi) == UNION {[1..k -> S] : k \in lo..hi}

RECURSIVE SumSeq(_)
SumSeq(s) == IF s = <<>> THEN 0 ELSE s[1] + SumSeq(Tail(s))

\* Outcome of a library call: a value, or a raised exception.
Ret(v) == [raised |-> FALSE, val |-> v]
Raise == [raised |-> TRUE, val |-> 0]

(***************************************************************************)
(* Fixed-point arithmetic.  A real r is the integer r * Scale.  ExpFix is  *)
(* exp() on the whole numbers the model draws logvar from, rounded to the  *)
(* nearest even multiple of 1/Scale (so that halving stays exact).         *)
(***************************************************************************)
Scale == 10000
Fix(n) == n * Scale
ExpFix(v) ==
    CASE v = -1 -> 3678
      [] v = 0  -> 10000
      [] v = 1  -> 27182

(***************************************************************************)
(* torch broadcasting of two 1-D tensors: sizes must be equal or one of    *)
(* them 1; the size-1 operand is repeated.                                 *)
(***************************************************************************)
Broadcastable(a, b) == Len(a) = Len(b) \/ Len(a) = 1 \/ Len(b) = 1
BroadcastLen(a, b) == Max(Len(a), Len(b))
BroadcastAt(a, i) == IF Len(a) = 1 THEN a[1] ELSE a[i]

\* torch.nn.functional.mse_loss(input, target, reduction='sum'): operands of
\* different sizes are broadcast (with a warning); it raises only when they
\* cannot be broadcast.
mse_loss_mean(input, target) ==
    IF ~Broadcastable(input, target) THEN Raise
    ELSE LET n == BroadcastLen(input, target)
             sq == [i \in 1..n |->
                      Fix((BroadcastAt(input, i) - BroadcastAt(target, i))
                          * (BroadcastAt(input, i) - BroadcastAt(target, i)))]
         IN  Ret(SumSeq(sq) \div n)
mse_loss(input, target) ==
    IF ~Broadcastable(input, target) THEN Raise
    ELSE LET n == BroadcastLen(input, target)
             sq == [i \in 1..n |->
                      Fix((BroadcastAt(input, i) - BroadcastAt(target, i))
                          * (BroadcastAt(input, i) - BroadcastAt(target, i)))]
         IN  Ret(SumSeq(sq))

\* -0.5 * torch.sum(1 + logvar - mu.pow(2) - logvar.exp()): the elementwise
\* subtraction broadcasts logvar against mu and raises when it cannot.
kld_term_flipped(m, lv) ==
    IF ~Broadcastable(lv, m) THEN Raise
    ELSE LET n == BroadcastLen(lv, m)
             t == [i \in 1..n |->
                     Fix(1) + Fix(BroadcastAt(lv, i))
                     - Fix(BroadcastAt(m, i) * BroadcastAt(m, i))
                     - ExpFix(BroadcastAt(lv, i))]
         IN  Ret(SumSeq(t) \div 2)
kld_term(m, lv) ==
    IF ~Broadcastable(lv, m) THEN Raise
    ELSE LET n == BroadcastLen(lv, m)
             t == [i \in 1..n |->
                     Fix(1) + Fix(BroadcastAt(lv, i))
                     - Fix(BroadcastAt(m, i) * BroadcastAt(m, i))
                     - ExpFix(BroadcastAt(lv, i))]
         IN  Ret((0 - SumSeq(t)) \div 2)

vae_loss_function(rx, xx, m, lv) ==
    LET MSE == mse_loss(rx, xx)
    IN  IF MSE.raised THEN Raise
        ELSE LET KLD == kld_term(m, lv)
             IN  IF KLD.raised THEN Raise
                 ELSE Ret(MSE.val + KLD.val)

(***************************************************************************)
(* SpecLoss: one call of vae_loss_function.                                *)
(***************************************************************************)
PassIdle ==
    /\ pc = "idle"
    /\ model = [training |-> FALSE, weights |-> 0]
    /\ dataloader = <<>>
    /\ test_loader = <<>>
    /\ loss_function = <<>>
    /\ it = 0
    /\ mus = <<>>
    /\ logvars = <<>>
    /\ reconstruction_losses = <<>>
    /\ originals = <<>>
    /\ reconstructions = <<>>
    /\ sorted_indices = <<>>
    /\ best_5_indices = <<>>
    /\ worst_5_indices = <<>>

InitLoss ==
    /\ recon_x \in SeqsOf(PixelVals, 1, MaxDim)
    /\ x \in SeqsOf(PixelVals, 1, MaxDim)
    /\ mu \in SeqsOf(MuVals, 1, MaxLatent)
    /\ logvar \in SeqsOf(LogvarVals, 1, MaxLatent)
    /\ loss_out = [state |-> "pending", val |-> 0]
    /\ PassIdle

call_vae_loss_function ==
    /\ loss_out.state = "pending"
    /\ LET r == vae_loss_function(recon_x, x, mu, logvar)
       IN  loss_out' = IF r.raised
                       THEN [state |-> "raised", val |-> 0]
                       ELSE [state |-> "returned", val |-> r.val]
    /\ UNCHANGED <<recon_x, x, mu, logvar, pass_vars>>

NextLoss == call_vae_loss_function

SpecLoss == InitLoss /\ [][NextLoss]_vars

(***************************************************************************)
(* The model object and the loader, as the passes use them.                *)
(***************************************************************************)
\* model.eval(): the module leaves training mode; weights are untouched.
model_eval_skipped(m) == m
model_eval(m) == [m EXCEPT !.training = FALSE]

\* model.encoder(batch): one (mu, logvar) row per sample of the batch.
encoder(m, batch) ==
    [mu     |-> [j \in 1..Len(batch) |-> [row |-> "mu", of |-> batch[j]]],
     logvar |-> [j \in 1..Len(batch) |-> [row |-> "logvar", of |-> batch[j]]]]

\* model(batch): the reconstruction of every sample of the batch.
forward(m, batch) ==
    [j \in 1..Len(batch) |-> [row |-> "recon", of |-> batch[j]]]

\* A loader over samples 0 .. B*S-1 in batches of S, in dataset order.
MakeLoader(B, S) ==
    [b \in 1..B |-> [j \in 1..S |-> (b - 1) * S + (j - 1)]]

\* torch.cat(tensors, dim=0): rows of all tensors in order; raises on an
\* empty list of tensors.
RECURSIVE Concat(_)
Concat(ts) == IF ts = <<>> THEN <<>> ELSE ts[1] \o Concat(Tail(ts))
torch_cat(ts) == IF ts = <<>> THEN Raise ELSE Ret(Concat(ts))

\* [img for batch in batches for img in batch]
flatten(batches) == Concat(batches)

(***************************************************************************)
(* numpy helpers of calculate_losses.  Indices are 0-based, as in numpy:   *)
(* index i of an array a is a[i + 1] of the sequence that models it.       *)
(***************************************************************************)
At(a, i) == a[i + 1]

\* np.argsort(a) with the default kind ('quicksort', documented as not
\* stable): some permutation of 0 .. N-1 that reads a in ascending order.
\* Which of the tied indices comes first depends on the numpy build, so
\* every ascending order is a possible result.
RECURSIVE AscendingOrders(_, _)
AscendingOrders(a, rest) ==
    IF rest = {} THEN {<<>>}
    ELSE LET least == {i \in rest : \A j \in rest : At(a, i) <= At(a, j)}
         IN  UNION {{<<i>> \o t : t \in AscendingOrders(a, rest \ {i})}
                    : i \in least}

RECURSIVE DescendingOrders(_, _)
DescendingOrders(a, rest) ==
    IF rest = {} THEN {<<>>}
    ELSE LET most == {i \in rest : \A j \in rest : At(a, i) >= At(a, j)}
         IN  UNION {{<<i>> \o t : t \in DescendingOrders(a, rest \ {i})}
                    : i \in most}

argsort_descending(a) == DescendingOrders(a, 0 .. Len(a) - 1)
argsort(a) == AscendingOrders(a, 0 .. Len(a) - 1)

\* Python slices s[:k] and s[-k:] (k > 0): both clip to the sequence.
TopK == 5
slice_head(s, k) == SubSeq(s, 1, Min(k, Len(s)))
slice_tail_from_k(s, k) == SubSeq(s, Min(k, Len(s)) + 1, Len(s))
slice_tail(s, k) == SubSeq(s, Max(Len(s) - k, 0) + 1, Len(s))

(***************************************************************************)
(* Inputs of the passes.                                                   *)
(***************************************************************************)
SpecExample5 == <<5, 1, 4, 2, 3>>
SpecExample10 == <<9, 8, 7, 6, 5, 4, 3, 2, 1, 0>>
LongLosses ==
    {SpecExample5, SpecExample10,
     <<2, 0, 1, 0, 2, 1>>,
     <<1, 3, 0, 3, 2, 1, 0>>,
     <<4, 1, 3, 1, 0, 2, 4, 3>>,
     <<0, 5, 2, 5, 1, 3, 0, 4, 2>>,
     <<3, 3, 1, 0, 2, 5, 4, 1, 6, 0>>,
     <<7, 2, 5, 2, 9, 0, 1, 8, 3, 6, 4>>}
LossLists == SeqsOf(LossVals, 0, MaxBatches) \cup LongLosses

(***************************************************************************)
(* Spec: the caller trains the model (or not), then runs one pass.         *)
(***************************************************************************)
LossIdle ==
    /\ recon_x = <<>>
    /\ x = <<>>
    /\ mu = <<>>
    /\ logvar = <<>>
    /\ loss_out = [state |-> "pending", val |-> 0]

Init ==
    /\ LossIdle
    /\ pc = "idle"
    /\ model \in [training : BOOLEAN, weights : {0}]
    /\ dataloader = <<>>
    /\ test_loader = <<>>
    /\ loss_function = <<>>
    /\ it = 0
    /\ mus = <<>>
    /\ logvars = <<>>
    /\ reconstruction_losses = <<>>
    /\ originals = <<>>
    /\ reconstructions = <<>>
    /\ sorted_indices = <<>>
    /\ best_5_indices = <<>>
    /\ worst_5_indices = <<>>

\* The caller's training loop, between passes: model.train() and an
\* optimizer step.
train_step ==
    /\ pc = "idle"
    /\ model.weights < MaxTrain
    /\ model' = [training |-> TRUE, weights |-> model.weights + 1]
    /\ UNCHANGED <<loss_vars, pc, dataloader, test_loader, loss_function, it,
                   mus, logvars, reconstruction_losses, originals,
                   reconstructions, sorted_indices, best_5_indices,
                   worst_5_indices>>

\* generate_latent, lines 65-67: the lists are created, the model is put in
\* evaluation mode, and the loop over the loader starts.
generate_latent_begin ==
    /\ pc = "idle"
    /\ \E B \in 0..MaxBatches, S \in 1..MaxBatchSize :
          dataloader' = MakeLoader(B, S)
    /\ mus' = <<>>
    /\ logvars' = <<>>
    /\ model' = model_eval(model)
    /\ it' = 0
    /\ pc' = "gl_loop"
    /\ UNCHANGED <<loss_vars, test_loader, loss_function,
                   reconstruction_losses, originals, reconstructions,
                   sorted_indices, best_5_indices, worst_5_indices>>

\* generate_latent, lines 69-72: one iteration of the loop.
generate_latent_iter ==
    /\ pc = "gl_loop"
    /\ it < Len(dataloader)
    /\ LET data == dataloader[it + 1]
           out == encoder(model, data)
       IN  /\ mus' = Append(mus, out.mu)
           /\ logvars' = Append(logvars, out.logvar)
    /\ it' = it + 1
    /\ UNCHANGED <<loss_vars, pc, model, dataloader, test_loader,
                   loss_function, reconstruction_losses, originals,
                   reconstructions, sorted_indices, best_5_indices,
                   worst_5_indices>>

\* generate_latent, lines 73-75: the loader is exhausted; torch.cat joins
\* the per-batch tensors (and raises when there is none) and the function
\* returns.
generate_latent_end ==
    /\ pc = "gl_loop"
    /\ it = Len(dataloader)
    /\ LET m == torch_cat(mus)
       IN  IF m.raised
           THEN /\ pc' = "gl_raised"
                /\ UNCHANGED <<mus, logvars>>
           ELSE /\ mus' = m.val
                /\ logvars' = torch_cat(logvars).val
                /\ pc' = "gl_returned"
    /\ UNCHANGED <<loss_vars, model, dataloader, test_loader, loss_function,
                   it, reconstruction_losses, originals, reconstructions,
                   sorted_indices, best_5_indices, worst_5_indices>>

\* calculate_losses, lines 131-135: evaluation mode, empty lists, loop start.
\* loss_function is any function of the batch: its value on each batch of
\* the loader is an input.
calculate_losses_begin ==
    /\ pc = "idle"
    /\ \E L \in LossLists, S \in 1..MaxBatchSize :
          /\ test_loader' = MakeLoader(Len(L), S)
          /\ loss_function' = L
    /\ model' = model_eval(model)
    /\ reconstruction_losses' = <<>>
    /\ originals' = <<>>
    /\ reconstructions' = <<>>
    /\ it' = 0
    /\ pc' = "cl_loop"
    /\ UNCHANGED <<loss_vars, dataloader, mus, logvars, sorted_indices,
                   best_5_indices, worst_5_indices>>

\* calculate_losses, lines 136-142: one iteration: one loss per batch.
calculate_losses_iter ==
    /\ pc = "cl_loop"
    /\ it < Len(test_loader)
    /\ LET data == test_loader[it + 1]
           recon_batch == forward(model, data)
           recon_loss == loss_function[it + 1]
       IN  /\ reconstruction_losses' = Append(reconstruction_losses, recon_loss)
           /\ originals' = Append(originals, data)
           /\ reconstructions' = Append(reconstructions, recon_batch)
    /\ it' = it + 1
    /\ UNCHANGED <<loss_vars, pc, model, dataloader, test_loader,
                   loss_function, mus, logvars, sorted_indices,
                   best_5_indices, worst_5_indices>>

\* calculate_losses, lines 144-152: ranking, flattening, return.
calculate_losses_end ==
    /\ pc = "cl_loop"
    /\ it = Len(test_loader)
    /\ \E s \in argsort(reconstruction_losses) :
          /\ sorted_indices' = s
          /\ best_5_indices' = slice_head(s, TopK)
          /\ worst_5_indices' = slice_tail(s, TopK)
    /\ originals' = flatten(originals)
    /\ reconstructions' = flatten(reconstructions)
    /\ pc' = "cl_returned"
    /\ UNCHANGED <<loss_vars, model, dataloader, test_loader, loss_function,
                   it, mus, logvars, reconstruction_losses>>

Next ==
    \/ train_step
    \/ generate_latent_begin
    \/ generate_latent_iter
    \/ generate_latent_end
    \/ calculate_losses_begin
    \/ calculate_losses_iter
    \/ calculate_losses_end

Spec == Init /\ [][Next]_vars

(***************************************************************************)
(* Properties of calculate_losses.                                         *)
(***************************************************************************)
RankedIndices == Range(best_5_indices) \cup Range(worst_5_indices)

\* C1: every index of best_5_indices and worst_5_indices denotes, in the
\* returned flat lists, the sample that produced the loss ranked there:
\* the data the loss at index i was computed from is exactly originals[i],
\* and reconstructions[i] is that sample's reconstruction.
C1_IndicesDenoteSamples ==
    pc = "cl_returned" =>
        \A i \in RankedIndices :
            /\ i < Len(originals)
            /\ i < Len(reconstructions)
            /\ test_loader[i + 1] = <<At(originals, i)>>
            /\ forward(model, test_loader[i + 1]) = <<At(reconstructions, i)>>

IsAscendingOrder(s, a) ==
    /\ Len(s) = Len(a)
    /\ Range(s) = 0 .. Len(a) - 1
    /\ \A p, q \in 1..Len(s) : p < q => At(a, s[p]) <= At(a, s[q])

\* C2: for N >= 1 losses, best-K is the first K and worst-K the last K
\* entries of an ascending order of the losses, K = min(5, N); every index
\* is in 0 .. N-1; the two are disjoint for N >= 10 and both the whole
\* order for N = 5; the two examples of the specification come out as
\* stated.
C2_BestWorstOfAscendingSort ==
    (pc = "cl_returned" /\ Len(reconstruction_losses) >= 1) =>
        LET N == Len(reconstruction_losses)
            K == IF N < 5 THEN N ELSE 5
        IN  /\ IsAscendingOrder(sorted_indices, reconstruction_losses)
            /\ best_5_indices = [p \in 1..K |-> sorted_indices[p]]
            /\ worst_5_indices = [p \in 1..K |-> sorted_indices[N - K + p]]
            /\ RankedIndices \subseteq 0 .. N - 1
            /\ N >= 10 => Range(best_5_indices) \cap Range(worst_5_indices) = {}
            /\ N = 5 => /\ best_5_indices = sorted_indices
                        /\ worst_5_indices = sorted_indices
            /\ reconstruction_losses = SpecExample5 =>
                   /\ best_5_indices = <<1, 3, 4, 2, 0>>
                   /\ worst_5_indices = <<1, 3, 4, 2, 0>>
            /\ reconstruction_losses = SpecExample10 =>
                   /\ best_5_indices = <<9, 8, 7, 6, 5>>
                   /\ worst_5_indices = <<4, 3, 2, 1, 0>>

\* C2 witness: a loader of fewer than five batches has been ranked, and the
\* slices were clipped to its length.
C2_Witness ==
    /\ pc = "cl_returned"
    /\ Len(reconstruction_losses) = 3
    /\ Len(best_5_indices) = 3
    /\ Len(worst_5_indices) = 3

\* The stable ascending order: among equal losses the smaller index first.
RECURSIVE StableOrder(_, _)
StableOrder(a, rest) ==
    IF rest = {} THEN <<>>
    ELSE LET i == CHOOSE k \in rest :
                     \A j \in rest :
                         \/ At(a, k) < At(a, j)
                         \/ At(a, k) = At(a, j) /\ k <= j
         IN  <<i>> \o StableOrder(a, rest \ {i})

\* C8 as stated: equal losses are ordered by dataset order (a stable sort),
\* so the ranking is a function of the loss list.
C8_StableTieBreak ==
    pc = "cl_returned" =>
        sorted_indices = StableOrder(reconstruction_losses,
                                     0 .. Len(reconstruction_losses) - 1)

\* The losses in ascending order, by insertion.
RECURSIVE InsertSorted(_, _)
InsertSorted(v, s) ==
    IF s = <<>> THEN <<v>>
    ELSE IF v <= s[1] THEN <<v>> \o s
    ELSE <<s[1]>> \o InsertSorted(v, Tail(s))

RECURSIVE SortedValues(_)
SortedValues(a) ==
    IF a = <<>> THEN <<>> ELSE InsertSorted(a[1], SortedValues(Tail(a)))

\* C8 as amended: the ranking is some ascending order of the losses; the
\* order among equal losses is not fixed, so only the loss values at the
\* best-K and worst-K positions are determined by the loss list, not the
\* indices.
C8_TiedLossesInSomeAscendingOrder ==
    pc = "cl_returned" =>
        LET a == reconstruction_losses
            v == SortedValues(a)
        IN  /\ Range(sorted_indices) = 0 .. Len(a) - 1
            /\ [p \in 1..Len(sorted_indices) |-> At(a, sorted_indices[p])] = v
            /\ [p \in 1..Len(best_5_indices) |-> At(a, best_5_indices[p])]
                   = slice_head(v, TopK)
            /\ [p \in 1..Len(worst_5_indices) |-> At(a, worst_5_indices[p])]
                   = slice_tail(v, TopK)

\* C8 witness: two losses are equal and the later-seen one was ranked first.
C8_Witness ==
    /\ pc = "cl_returned"
    /\ \E p, q \in 1..Len(sorted_indices) :
          /\ p < q
          /\ sorted_indices[p] > sorted_indices[q]
          /\ At(reconstruction_losses, sorted_indices[p])
                 = At(reconstruction_losses, sorted_indices[q])

\* C10: with no losses (N = 0) calculate_losses fails instead of returning
\* index lists.
C10_NoLossesFails ==
    ~(pc = "cl_returned" /\ Len(test_loader) = 0)

(***************************************************************************)
(* Properties of generate_latent.                                          *)
(***************************************************************************)
GenerateLatentDone == pc \in {"gl_returned", "gl_raised"}

LatentsInBatchOrder ==
    LET B == Len(dataloader)
        S == IF B = 0 THEN 0 ELSE Len(dataloader[1])
    IN  /\ Len(mus) = B * S
        /\ Len(logvars) = B * S
        /\ \A b \in 1..B : \A j \in 1..S :
              /\ mus[(b - 1) * S + j] = encoder(model, dataloader[b]).mu[j]
              /\ logvars[(b - 1) * S + j]
                     = encoder(model, dataloader[b]).logvar[j]
              /\ mus[(b - 1) * S + j].of = logvars[(b - 1) * S + j].of

\* C6: over B batches of S samples generate_latent returns mus and logvars
\* of length B*S, entry b*S + j being the encoder's output for sample j of
\* batch b, the two aligned row by row.
C6_LatentsOfLengthBS ==
    GenerateLatentDone => (pc = "gl_returned" /\ LatentsInBatchOrder)

\* The part of C6 the code does deliver: whenever generate_latent returns.
ReturnedLatentsInBatchOrder ==
    pc = "gl_returned" => LatentsInBatchOrder

\* C9: over a loader of zero batches generate_latent returns empty mus and
\* logvars and does not raise.
C9_EmptyLoaderReturnsEmpty ==
    (GenerateLatentDone /\ Len(dataloader) = 0) =>
        (pc = "gl_returned" /\ mus = <<>> /\ logvars = <<>>)

\* C7: from the moment a pass starts, no step changes the weights and the
\* model is in evaluation mode, at every encoder / forward invocation and
\* after the pass has ended, whatever its mode was before.
C7_EvalModeAndWeightsKept ==
    [][pc' # "idle" =>
         (model'.weights = model.weights /\ ~model'.training)]_vars

\* C7 witness: a model the caller had left in training mode has been run
\* through the encoder by a pass.
C7_Witness ==
    /\ pc \in {"gl_loop", "cl_loop"}
    /\ it >= 1
    /\ model.weights = 1

(***************************************************************************)
(* Properties of vae_loss_function (under SpecLoss).                       *)
(***************************************************************************)
LossCalled == loss_out.state # "pending"

\* C3: whenever recon_x and x, or mu and logvar, differ in shape the call
\* fails with an error and returns no value.
C3_MismatchedShapesRaise ==
    (LossCalled /\ (Len(recon_x) # Len(x) \/ Len(mu) # Len(logvar))) =>
        loss_out.state = "raised"

RECURSIVE SumOver(_, _)
SumOver(f, I) ==
    IF I = {} THEN 0
    ELSE LET i == CHOOSE k \in I : TRUE IN f[i] + SumOver(f, I \ {i})

SquaredDifferences ==
    SumOver([i \in DOMAIN x |-> (recon_x[i] - x[i]) * (recon_x[i] - x[i]) * Scale],
            DOMAIN x)
TwiceMinusKL ==
    SumOver([i \in DOMAIN mu |->
                Scale + logvar[i] * Scale - mu[i] * mu[i] * Scale
                - ExpFix(logvar[i])],
            DOMAIN mu)

\* C4: on operands of matching shapes the call returns the sum (not the
\* mean) of the squared differences plus -0.5 times the sum of
\* 1 + logvar - mu^2 - exp(logvar); the first term is 0 when recon_x = x and
\* the second is 0 when mu and logvar are all zero.
C4_SumOfSquaresPlusKL ==
    (LossCalled /\ Len(recon_x) = Len(x) /\ Len(mu) = Len(logvar)) =>
        /\ loss_out.state = "returned"
        /\ 2 * (loss_out.val - SquaredDifferences) = 0 - TwiceMinusKL
        /\ recon_x = x => 2 * loss_out.val = 0 - TwiceMinusKL
        /\ (Range(mu) = {0} /\ Range(logvar) = {0}) =>
               loss_out.val = SquaredDifferences
        /\ (recon_x = x /\ Range(mu) = {0} /\ Range(logvar) = {0}) =>
               loss_out.val = 0

\* C4 witness: a call on several elements and several latent dimensions,
\* with a non-zero reconstruction error and a non-zero KL term, has returned.
C4_Witness ==
    /\ loss_out.state = "returned"
    /\ Len(recon_x) = Len(x) /\ Len(x) >= 2
    /\ Len(mu) = Len(logvar) /\ Len(mu) >= 2
    /\ recon_x # x
    /\ Range(mu) # {0}
    /\ Range(logvar) # {0}

\* C5: the returned loss is never negative, and neither is either of its
\* two terms.
C5_LossNonNegative ==
    loss_out.state = "returned" =>
        /\ loss_out.val >= 0
        /\ mse_loss(recon_x, x).val >= 0
        /\ kld_term(mu, logvar).val >= 0

\* C5 witness: a call with a negative log-variance and a non-zero mean has
\* returned a positive loss.
C5_Witness ==
    /\ loss_out.state = "returned"
    /\ \E i \in DOMAIN logvar : logvar[i] < 0
    /\ \E i \in DOMAIN mu : mu[i] # 0
    /\ loss_out.val > 0

====
